---- MODULE Spec2Model ----
(***************************************************************************)
(* shadcn-tanstack-form: the form adapter components.                      *)
(*                                                                         *)
(* Two adapter variants live in the repository:                            *)
(*   - src/src/components/ui/form.tsx  (useFormItemContext and renderers)  *)
(*   - src/unnamed/part_001            (useFormField and renderers)        *)
(* Both project the state of the external form-state container (errors,    *)
(* isTouched, submissionAttempts) onto DOM attributes.  The container is   *)
(* the environment: Spec lets its notifications carry any supported        *)
(* values, and every notification re-renders both adapters in the same     *)
(* step.  FormSpec drives the same store through the container's handlers  *)
(* and the Form shell's submit handler; ScopeSpec mounts and unmounts rows *)
(* and renders components without the ancestors they need; IdSpec derives  *)
(* the ids of pairs of row identifiers.                                    *)
(***************************************************************************)
EXTENDS Integers, Sequences, FiniteSets

(***************************************************************************)
(* Bounds.                                                                 *)
(***************************************************************************)
\* Largest number of error descriptors the store holds over all fields.
MaxErrors == 2
\* Largest submission attempt count explored.
MaxAttempts == 2
\* Identifiers React.useId hands out before the model stops mounting rows.
MaxIds == 4

(***************************************************************************)
(* Program constants.                                                      *)
(***************************************************************************)
\* testSchema: name: z.string().min(2, ...)
MinNameLength == 2

(***************************************************************************)
(* JavaScript values.  A value is a record; kind is the runtime kind, str  *)
(* and num the payload of a string / number, hasMessage whether an object  *)
(* has an own "message" property, and message that property (a primitive). *)
(***************************************************************************)
Prim(k, s, n) == [kind |-> k, str |-> s, num |-> n]

PrimUndefined == Prim("undefined", "", 0)

JsValue(k, s, n, h, m) ==
    [kind |-> k, str |-> s, num |-> n, hasMessage |-> h, message |-> m]

JsUndefined == JsValue("undefined", "", 0, FALSE, PrimUndefined)

JsNull == JsValue("null", "", 0, FALSE, PrimUndefined)

JsString(s) == JsValue("string", s, 0, FALSE, PrimUndefined)

JsNumber(n) == JsValue("number", "", n, FALSE, PrimUndefined)

\* A plain object without a "message" property.
JsObject == JsValue("object", "", 0, FALSE, PrimUndefined)

\* An object carrying a "message" property holding the primitive m.
JsObjectWithMessage(m) == JsValue("object", "", 0, TRUE, m)

\* A primitive read out of an object property, as a full value.
Lift(p) == JsValue(p.kind, p.str, p.num, FALSE, PrimUndefined)

\* typeof v  (typeof null is "object").
TypeOf(v) == IF v.kind = "null" THEN "object" ELSE v.kind

Digit(n) == CASE n = 0 -> "0" [] n = 1 -> "1" [] n = 2 -> "2" [] n = 3 -> "3"
              [] n = 4 -> "4" [] n = 5 -> "5" [] n = 6 -> "6" [] n = 7 -> "7"
              [] n = 8 -> "8" [] n = 9 -> "9"

RECURSIVE NumberToString(_)
NumberToString(n) ==
    IF n < 10 THEN Digit(n) ELSE NumberToString(n \div 10) \o Digit(n % 10)

\* String(v) for the kinds above; a plain object stringifies to
\* "[object Object]".
String(v) ==
    CASE v.kind = "string"    -> v.str
      [] v.kind = "number"    -> NumberToString(v.num)
      [] v.kind = "null"      -> "null"
      [] v.kind = "undefined" -> "undefined"
      [] v.kind = "object"    -> "[object Object]"

\* Truthiness, as used by !v and v ? a : b.
Truthy(v) ==
    CASE v.kind = "string"    -> v.str # ""
      [] v.kind = "number"    -> v.num # 0
      [] v.kind = "null"      -> FALSE
      [] v.kind = "undefined" -> FALSE
      [] v.kind = "object"    -> TRUE

\* a ?? b
Coalesce(a, b) == IF a.kind \in {"null", "undefined"} THEN b ELSE a

(***************************************************************************)
(* The rows of the rendered form and their static props.                   *)
(***************************************************************************)
Rows == {"name", "email"}

\* React.useId(): one identifier per mounted FormItem, distinct per row.
UseId(r) == IF r = "name" THEN ":r0:" ELSE ":r1:"

\* The children prop handed to the row's FormMessage: none, or fallback text.
Children(r) ==
    IF r = "name" THEN JsUndefined ELSE JsString("Custom error message")

\* The error descriptors a validator or the store may deliver.
Descriptors ==
    { JsString("Required"),
      JsObjectWithMessage(Prim("string", "Too short", 0)),
      JsObjectWithMessage(Prim("string", "", 0)),
      JsObjectWithMessage(Prim("number", "", 7)),
      JsObject,
      JsNull,
      JsUndefined,
      JsNumber(0) }

RECURSIVE SeqsUpTo(_, _)
SeqsUpTo(S, n) ==
    IF n = 0 THEN {<<>>}
    ELSE LET shorter == SeqsUpTo(S, n - 1)
         IN  shorter \cup {Append(s, d) : s \in shorter, d \in S}

ErrorLists == SeqsUpTo(Descriptors, MaxErrors)

\* The lists one validation run can turn the list es into: every validator
\* passes (no error), one validator reports d alone, or one more validator
\* reports d after the errors already held.
NextErrorLists(es) ==
    {<<>>} \cup {<<d>> : d \in Descriptors}
           \cup {Append(es, d) : d \in Descriptors}

(***************************************************************************)
(* form.tsx                                                                *)
(***************************************************************************)
\* The message derivation with showError taken from submissionAttempts alone.
ErrorMessage_SubmitOnly(errs, touched, attempts) ==
    LET showError == attempts > 0
    IN  IF showError /\ Len(errs) > 0
        THEN LET error == errs[1]
             IN  IF TypeOf(error) = "string"
                 THEN JsString(error.str)
                 ELSE IF TypeOf(error) = "object" /\ error.kind # "null"
                 THEN IF error.hasMessage /\ error.message.kind = "string"
                      THEN JsString(error.message.str)
                      ELSE JsNull
                 ELSE IF error.kind # "null" /\ error.kind # "undefined"
                 THEN JsString(String(error))
                 ELSE JsNull
        ELSE JsNull

\* The message derivation with showError taken from isTouched alone.
ErrorMessage_TouchedOnly(errs, touched, attempts) ==
    LET showError == touched
    IN  IF showError /\ Len(errs) > 0
        THEN LET error == errs[1]
             IN  IF TypeOf(error) = "string"
                 THEN JsString(error.str)
                 ELSE IF TypeOf(error) = "object" /\ error.kind # "null"
                 THEN IF error.hasMessage /\ error.message.kind = "string"
                      THEN JsString(error.message.str)
                      ELSE JsNull
                 ELSE IF error.kind # "null" /\ error.kind # "undefined"
                 THEN JsString(String(error))
                 ELSE JsNull
        ELSE JsNull

\* The message derivation that skips a null or undefined first descriptor.
ErrorMessage_FirstUsable(errs, touched, attempts) ==
    LET showError == touched \/ attempts > 0
    IN  IF showError /\ Len(errs) > 0
        THEN LET error == IF /\ Len(errs) > 1
                             /\ errs[1].kind \in {"null", "undefined"}
                          THEN errs[2] ELSE errs[1]
             IN  IF TypeOf(error) = "string"
                 THEN JsString(error.str)
                 ELSE IF TypeOf(error) = "object" /\ error.kind # "null"
                 THEN IF error.hasMessage /\ error.message.kind = "string"
                      THEN JsString(error.message.str)
                      ELSE JsNull
                 ELSE IF error.kind # "null" /\ error.kind # "undefined"
                 THEN JsString(String(error))
                 ELSE JsNull
        ELSE JsNull

\* The message derivation inside the useMemo of useFormItemContext.
ErrorMessage(errs, touched, attempts) ==
    LET showError == touched \/ attempts > 0
    IN  IF showError /\ Len(errs) > 0
        THEN LET error == errs[1]
             IN  IF TypeOf(error) = "string"
                 THEN JsString(error.str)
                 ELSE IF TypeOf(error) = "object" /\ error.kind # "null"
                 THEN IF error.hasMessage /\ error.message.kind = "string"
                      THEN JsString(error.message.str)
                      ELSE JsNull
                 ELSE IF error.kind # "null" /\ error.kind # "undefined"
                 THEN JsString(String(error))
                 ELSE JsNull
        ELSE JsNull

\* useFormItemContext with hasError taken from showError alone.
useFormItemContext_ShowErrorOnly(idContext, errs, touched, attempts) ==
    LET showError    == touched \/ attempts > 0
        errorMessage == ErrorMessage(errs, touched, attempts)
    IN  [ formControlId     |-> idContext \o "-form-item",
          formDescriptionId |-> idContext \o "-form-item-description",
          formMessageId     |-> idContext \o "-form-item-message",
          error             |-> errorMessage,
          hasError          |-> showError ]

\* useFormItemContext giving the message the id of the description.
useFormItemContext_MessageIdClash(idContext, errs, touched, attempts) ==
    LET showError    == touched \/ attempts > 0
        errorMessage == ErrorMessage(errs, touched, attempts)
    IN  [ formControlId     |-> idContext \o "-form-item",
          formDescriptionId |-> idContext \o "-form-item-description",
          formMessageId     |-> idContext \o "-form-item-description",
          error             |-> errorMessage,
          hasError          |-> showError /\ errorMessage # JsNull ]

\* useFormItemContext with hasError taken from the truthiness of the message.
useFormItemContext_TruthyError(idContext, errs, touched, attempts) ==
    LET errorMessage == ErrorMessage(errs, touched, attempts)
    IN  [ formControlId     |-> idContext \o "-form-item",
          formDescriptionId |-> idContext \o "-form-item-description",
          formMessageId     |-> idContext \o "-form-item-message",
          error             |-> errorMessage,
          hasError          |-> Truthy(errorMessage) ]

useFormItemContext(idContext, errs, touched, attempts) ==
    LET showError    == touched \/ attempts > 0
        errorMessage == ErrorMessage(errs, touched, attempts)
    IN  [ formControlId     |-> idContext \o "-form-item",
          formDescriptionId |-> idContext \o "-form-item-description",
          formMessageId     |-> idContext \o "-form-item-message",
          error             |-> errorMessage,
          hasError          |-> showError /\ errorMessage # JsNull ]

\* FormLabel flagging the label by the truthiness of the message.
FormLabel_TruthyError(item) ==
    [ htmlFor |-> item.formControlId, dataError |-> Truthy(item.error) ]

\* FormLabel pointing at the description instead of the control.
FormLabel_WrongTarget(item) ==
    [ htmlFor |-> item.formDescriptionId, dataError |-> item.hasError ]

FormLabel(item) ==
    [ htmlFor |-> item.formControlId, dataError |-> item.hasError ]

FormControl(item) ==
    [ id              |-> item.formControlId,
      ariaDescribedby |-> IF item.hasError
                          THEN <<item.formDescriptionId, item.formMessageId>>
                          ELSE <<item.formDescriptionId>>,
      ariaInvalid     |-> item.hasError ]

\* FormDescription carrying the message id.
FormDescription_MessageId(item) == [ id |-> item.formMessageId ]

FormDescription(item) == [ id |-> item.formDescriptionId ]

\* The absent DOM node (a component returning null).
NoNode == [ rendered |-> FALSE, id |-> "", body |-> JsUndefined ]

\* FormMessage that forgets the fallback children.
FormMessage_NoFallback(item, children) ==
    LET body == item.error
    IN  IF ~Truthy(body)
        THEN NoNode
        ELSE [ rendered |-> TRUE, id |-> item.formMessageId, body |-> body ]

FormMessage(item, children) ==
    LET body == Coalesce(item.error, children)
    IN  IF ~Truthy(body)
        THEN NoNode
        ELSE [ rendered |-> TRUE, id |-> item.formMessageId, body |-> body ]

\* One row as rendered by form.tsx.
RenderItem(item, children) ==
    [ label       |-> FormLabel(item),
      control     |-> FormControl(item),
      description |-> FormDescription(item),
      message     |-> FormMessage(item, children) ]

(***************************************************************************)
(* part_001: the adapter built on useFormField                             *)
(***************************************************************************)
\* The absent error (error: null).
NoError == [ isNull |-> TRUE, message |-> JsUndefined ]

\* useFormField that always stringifies the first descriptor.
useFormField_Stringify(id, errs, touched) ==
    [ formItemId        |-> id \o "-form-item",
      formDescriptionId |-> id \o "-form-item-description",
      formMessageId     |-> id \o "-form-item-message",
      error             |->
          IF Len(errs) > 0
          THEN [ isNull  |-> FALSE,
                 message |-> JsString(String(errs[1])) ]
          ELSE NoError,
      isTouched         |-> touched ]

useFormField(id, errs, touched) ==
    [ formItemId        |-> id \o "-form-item",
      formDescriptionId |-> id \o "-form-item-description",
      formMessageId     |-> id \o "-form-item-message",
      error             |->
          IF Len(errs) > 0
          THEN [ isNull  |-> FALSE,
                 message |->
                     IF /\ TypeOf(errs[1]) = "object"
                        /\ errs[1].kind # "null"
                        /\ errs[1].hasMessage
                     THEN Lift(errs[1].message)
                     ELSE JsString(String(errs[1])) ]
          ELSE NoError,
      isTouched         |-> touched ]

LegacyFormLabel(f) ==
    [ htmlFor |-> f.formItemId, dataError |-> ~f.error.isNull ]

LegacyFormControl(f) ==
    [ id              |-> f.formItemId,
      ariaDescribedby |-> IF f.error.isNull
                          THEN <<f.formDescriptionId>>
                          ELSE <<f.formDescriptionId, f.formMessageId>>,
      ariaInvalid     |-> ~f.error.isNull ]

LegacyFormDescription(f) == [ id |-> f.formDescriptionId ]

LegacyFormMessage(f, children) ==
    LET body == IF ~f.error.isNull
                THEN JsString(String(Coalesce(f.error.message, JsString(""))))
                ELSE children
    IN  IF ~Truthy(body)
        THEN NoNode
        ELSE [ rendered |-> TRUE, id |-> f.formMessageId, body |-> body ]

\* One row as rendered by the useFormField adapter.
LegacyRenderItem(f, children) ==
    [ label       |-> LegacyFormLabel(f),
      control     |-> LegacyFormControl(f),
      description |-> LegacyFormDescription(f),
      message     |-> LegacyFormMessage(f, children) ]

(***************************************************************************)
(* State.                                                                  *)
(***************************************************************************)
VARIABLES
    errors,              \* field.store: state.meta.errors, per field
    isTouched,           \* field.store: state.meta.isTouched, per field
    submissionAttempts,  \* form.store: state.submissionAttempts
    formItem,            \* form.tsx: what useFormItemContext returned, per row
    dom,                 \* form.tsx: the rendered row, per row
    formField,           \* part_001: what useFormField returned, per row
    legacyDom,           \* part_001: the rendered row, per row
    value,               \* field.store: state.value, per field
    isDirty,             \* field.store: state.meta.isDirty, per field
    lastOp,              \* the operation that produced the current state
    submitEvent,         \* the native submit event handled last, if any
    mounted,             \* the rows whose FormItem is mounted
    itemId,              \* the identifier each mounted FormItem provides
    nextId,              \* React's identifier counter
    probe                \* the last render attempted outside the rows

storeVars == <<errors, isTouched, submissionAttempts>>

viewVars == <<formItem, dom, formField, legacyDom>>

appVars == <<value, isDirty, lastOp, submitEvent>>

scopeVars == <<mounted, itemId, nextId, probe>>

vars == <<errors, isTouched, submissionAttempts,
          formItem, dom, formField, legacyDom,
          value, isDirty, lastOp, submitEvent,
          mounted, itemId, nextId, probe>>

\* Number of error descriptors held by the store.
RECURSIVE TotalErrors(_, _)
TotalErrors(errs, rows) ==
    IF rows = {} THEN 0
    ELSE LET r == CHOOSE x \in rows : TRUE
         IN  Len(errs[r]) + TotalErrors(errs, rows \ {r})

\* A FormItem providing the same identifier to every row.
FormItem_Shared(id) == ":r0:"

\* FormItem: the identifier React.useId returned is the value the row's
\* context provider hands to the row's descendants (both adapters).
FormItem(id) == id

\* The identifier of the n-th useId call of the page.
MakeId(n) == ":r" \o NumberToString(n) \o ":"

\* What the view variables hold for a row that is not mounted.
Unmounted == [isMounted |-> FALSE]

\* A dependency list that leaves the errors out.
MemoDeps_NoErrors(idContext, errs, touched, attempts) ==
    <<idContext, touched, attempts>>

\* The dependency list of the useMemo in useFormItemContext.
MemoDeps(idContext, errs, touched, attempts) ==
    <<idContext, touched, attempts, errs>>

\* A render pass of every mounted row, in both adapters, from a store
\* snapshot.  useMemo returns the value of the previous render of the row
\* when the dependency list is unchanged, and recomputes otherwise.
RenderAll(ids, mnt, errs, touched, attempts) ==
    LET items  == [r \in Rows |->
                     IF r \notin mnt THEN Unmounted
                     ELSE IF /\ r \in mounted
                             /\ MemoDeps(ids[r], errs[r], touched[r], attempts)
                                  = MemoDeps(itemId[r], errors[r], isTouched[r],
                                             submissionAttempts)
                     THEN formItem[r]
                     ELSE useFormItemContext(ids[r], errs[r], touched[r],
                                             attempts)]
        fields == [r \in Rows |->
                     IF r \notin mnt THEN Unmounted
                     ELSE useFormField(ids[r], errs[r], touched[r])]
    IN  /\ formItem'  = items
        /\ dom'       = [r \in Rows |->
                           IF r \notin mnt THEN Unmounted
                           ELSE RenderItem(items[r], Children(r))]
        /\ formField' = fields
        /\ legacyDom' = [r \in Rows |->
                           IF r \notin mnt THEN Unmounted
                           ELSE LegacyRenderItem(fields[r], Children(r))]

\* A re-render of the rows that stay mounted, after a store notification.
Rendered(errs, touched, attempts) ==
    RenderAll(itemId, mounted, errs, touched, attempts)

\* No submit event has been handled.
NoEvent ==
    [ handled |-> FALSE, props |-> "", effects |-> <<>>,
      legacyEffects |-> <<>>, valid |-> FALSE, values |-> <<>>,
      onSubmitArgs |-> <<>>, legacyOnSubmitArgs |-> <<>> ]

\* Nothing has been rendered outside the rows.
NoProbe == [ probed |-> FALSE ]

\* The default values of the form (useAppForm defaultValues).
DefaultValue(r) == ""

\* The first render: every row mounted, no errors, nothing touched, no
\* submission attempted.
Init ==
    /\ mounted = Rows
    /\ itemId = [r \in Rows |-> FormItem(UseId(r))]
    /\ nextId = Cardinality(Rows)
    /\ errors = [r \in Rows |-> <<>>]
    /\ isTouched = [r \in Rows |-> FALSE]
    /\ submissionAttempts = 0
    /\ formItem = [r \in Rows |->
                     useFormItemContext(itemId[r], <<>>, FALSE, 0)]
    /\ dom = [r \in Rows |-> RenderItem(formItem[r], Children(r))]
    /\ formField = [r \in Rows |-> useFormField(itemId[r], <<>>, FALSE)]
    /\ legacyDom = [r \in Rows |-> LegacyRenderItem(formField[r], Children(r))]
    /\ value = [r \in Rows |-> DefaultValue(r)]
    /\ isDirty = [r \in Rows |-> FALSE]
    /\ lastOp = "mount"
    /\ submitEvent = NoEvent
    /\ probe = NoProbe

\* The field store notifies a new meta.errors for field r.
NotifyErrors(r) ==
    \E es \in NextErrorLists(errors[r]) :
        /\ es # errors[r]
        /\ LET errs == [errors EXCEPT ![r] = es]
           IN  /\ TotalErrors(errs, Rows) <= MaxErrors
               /\ errors' = errs
               /\ Rendered(errs, isTouched, submissionAttempts)
        /\ UNCHANGED <<isTouched, submissionAttempts>>
        /\ UNCHANGED <<appVars, scopeVars>>

\* The field store notifies a new meta.isTouched for field r.
NotifyTouched(r, t) ==
    /\ t # isTouched[r]
    /\ isTouched' = [isTouched EXCEPT ![r] = t]
    /\ Rendered(errors, isTouched', submissionAttempts)
    /\ UNCHANGED <<errors, submissionAttempts>>
    /\ UNCHANGED <<appVars, scopeVars>>

\* The form store notifies a new submissionAttempts.
NotifySubmissionAttempts(n) ==
    /\ n # submissionAttempts
    /\ submissionAttempts' = n
    /\ Rendered(errors, isTouched, n)
    /\ UNCHANGED <<errors, isTouched>>
    /\ UNCHANGED <<appVars, scopeVars>>

Next ==
    \/ \E r \in Rows : NotifyErrors(r)
    \/ \E r \in Rows, t \in BOOLEAN : NotifyTouched(r, t)
    \/ \E n \in 0..MaxAttempts : NotifySubmissionAttempts(n)

Spec == Init /\ [][Next]_vars

(***************************************************************************)
(* The Form shell and the native submit event.                             *)
(***************************************************************************)
\* The onSubmit prop a caller hands to Form: none, or the handler the
\* example screens and tests pass.
OnSubmitProps == {"none", "caller"}

\* What the callers' onSubmit handler does with the event, in order.
CallerOnSubmit == <<"preventDefault", "stopPropagation", "handleSubmit">>

\* What the onSubmit handler built into the Form of form.tsx does, in order.
BuiltInOnSubmit == <<"stopPropagation", "preventDefault", "handleSubmit">>

\* A caller's onSubmit handler that leaves the event and the form alone.
SilentOnSubmit == <<>>

\* Every onSubmit prop Form can be handed: those of the repository and a
\* handler of the caller's own that neither suppresses nor submits.
AnyOnSubmitProps == OnSubmitProps \cup {"silent"}

\* What the handler passed as the onSubmit prop does, in order.
OnSubmit(props) ==
    IF props = "caller" THEN CallerOnSubmit ELSE SilentOnSubmit

\* A Form that runs its built-in handler and then the caller's.
Form_BothHandlers(props) ==
    IF props = "none" THEN BuiltInOnSubmit
    ELSE BuiltInOnSubmit \o OnSubmit(props)

\* Form of form.tsx: the props are spread after the built-in onSubmit, so a
\* caller's onSubmit replaces it.  The result is what the handler attached
\* to the <form> element does on a submit event.
Form(props) ==
    IF props = "none" THEN BuiltInOnSubmit ELSE OnSubmit(props)

\* Form of part_001: the <form> element gets the caller's props and nothing
\* else; without an onSubmit prop no handler runs.
LegacyForm(props) ==
    IF props = "none" THEN <<>> ELSE OnSubmit(props)

\* The positions of the effect e in a handler's effects.
Positions(effects, e) == {i \in 1..Len(effects) : effects[i] = e}

(***************************************************************************)
(* The form-state container, as the screens and tests configure it.        *)
(***************************************************************************)
\* The values a user types into a field.
Values(r) ==
    IF r = "name" THEN {"", "J", "John"}
    ELSE {"", "invalid-email", "john@example.com"}

\* The strings among Values that have the shape of an e-mail address.
EmailShaped == {"john@example.com"}

\* testSchema: the issues the schema reports for the value v of field r.
SchemaIssues(r, v) ==
    IF r = "name"
    THEN IF Len(v) < MinNameLength
         THEN <<JsObjectWithMessage(
                    Prim("string", "Name must be at least 2 characters", 0))>>
         ELSE <<>>
    ELSE IF v \notin EmailShaped
         THEN <<JsObjectWithMessage(Prim("string", "Invalid email address", 0))>>
         ELSE <<>>

\* The form-level validator run: the errors of every field for the values.
Validate(vals) == [r \in Rows |-> SchemaIssues(r, vals[r])]

AllValid(vals) == \A r \in Rows : SchemaIssues(r, vals[r]) = <<>>

\* n copies of x.
Copies(n, x) == [i \in 1..n |-> x]

\* Renderers that blur the field while rendering.
RenderCalls_Blur == {"handleBlur"}

\* The container mutators called while Form, FormItem, FormLabel,
\* FormControl, FormDescription and FormMessage render: none.
RenderCalls == {}

\* field.handleChange(v): the value changes, the field is dirty, and the
\* onChange schema validates the form.  Whether the change also marks the
\* field touched is left to the container (t).
HandleChange(r, v, t) ==
    /\ v # value[r]
    /\ t \in {isTouched[r], TRUE}
    /\ value' = [value EXCEPT ![r] = v]
    /\ isDirty' = [isDirty EXCEPT ![r] = TRUE]
    /\ isTouched' = [isTouched EXCEPT ![r] = t]
    /\ errors' = Validate(value')
    /\ Rendered(errors', isTouched', submissionAttempts)
    /\ lastOp' = "handleChange"
    /\ submitEvent' = NoEvent
    /\ UNCHANGED <<submissionAttempts, scopeVars>>

\* field.handleBlur(): the field is touched.
HandleBlur(r) ==
    /\ isTouched' = [isTouched EXCEPT ![r] = TRUE]
    /\ Rendered(errors, isTouched', submissionAttempts)
    /\ lastOp' = "handleBlur"
    /\ submitEvent' = NoEvent
    /\ UNCHANGED <<errors, submissionAttempts, value, isDirty, scopeVars>>

\* form.handleSubmit(), called n times on the values vals: each call counts
\* one submission attempt, the form is validated and, when every field is
\* valid, the application's onSubmit is called with the values.
HandleSubmit(n, vals) ==
    [ attempts     |-> n,
      errors       |-> Validate(vals),
      onSubmitArgs |-> IF AllValid(vals) THEN Copies(n, vals) ELSE <<>> ]

\* A native submit event reaches the <form> element and the handler the
\* Form shell attached runs.  The store follows the Form of form.tsx; what
\* the Form of part_001 does with the same event is recorded beside it.
SubmitEvent(props) ==
    LET effects == Form(props)
        n       == Cardinality(Positions(effects, "handleSubmit"))
        result  == HandleSubmit(n, value)
    IN  /\ submissionAttempts + n <= MaxAttempts
        /\ submissionAttempts' = submissionAttempts + result.attempts
        /\ errors' = IF n > 0 THEN result.errors ELSE errors
        /\ submitEvent' =
               [ handled       |-> TRUE,
                 props         |-> props,
                 effects       |-> effects,
                 legacyEffects |-> LegacyForm(props),
                 valid         |-> AllValid(value),
                 values        |-> value,
                 onSubmitArgs  |-> result.onSubmitArgs,
                 legacyOnSubmitArgs |->
                     HandleSubmit(
                         Cardinality(Positions(LegacyForm(props),
                                               "handleSubmit")),
                         value).onSubmitArgs ]
        /\ Rendered(errors', isTouched, submissionAttempts')
        /\ lastOp' = "submit"
        /\ UNCHANGED <<isTouched, value, isDirty, scopeVars>>

\* form.reset(): the container returns to its defaults.
Reset ==
    /\ lastOp # "mount"
    /\ value' = [r \in Rows |-> DefaultValue(r)]
    /\ isDirty' = [r \in Rows |-> FALSE]
    /\ isTouched' = [r \in Rows |-> FALSE]
    /\ errors' = [r \in Rows |-> <<>>]
    /\ submissionAttempts' = 0
    /\ Rendered(errors', isTouched', 0)
    /\ lastOp' = "reset"
    /\ submitEvent' = NoEvent
    /\ UNCHANGED scopeVars

\* The rows render again without a store notification (a parent re-render).
\* Every container mutator the renderers call takes effect.
Rerender ==
    /\ isTouched' = [r \in Rows |->
                       IF "handleBlur" \in RenderCalls THEN TRUE
                       ELSE isTouched[r]]
    /\ value' = [r \in Rows |->
                   IF "handleChange" \in RenderCalls THEN DefaultValue(r)
                   ELSE value[r]]
    /\ submissionAttempts' =
           IF "handleSubmit" \in RenderCalls /\ submissionAttempts < MaxAttempts
           THEN submissionAttempts + 1 ELSE submissionAttempts
    /\ errors' = IF RenderCalls = {} THEN errors ELSE Validate(value')
    /\ Rendered(errors', isTouched', submissionAttempts')
    /\ lastOp' = "render"
    /\ submitEvent' = NoEvent
    /\ UNCHANGED <<isDirty, scopeVars>>

FormNext ==
    \/ \E r \in Rows : \E v \in Values(r), t \in BOOLEAN : HandleChange(r, v, t)
    \/ \E r \in Rows : HandleBlur(r)
    \/ \E props \in AnyOnSubmitProps : SubmitEvent(props)
    \/ Reset
    \/ Rerender

FormSpec == Init /\ [][FormNext]_vars

(***************************************************************************)
(* Scopes: rows mounting and unmounting, and components rendered outside   *)
(* the ancestors they need.                                                *)
(***************************************************************************)
\* The identifier of a row that is not mounted.
NoId == ""

\* The default value of IdContext (form.tsx), read outside every FormItem.
IdContext == JsNull

\* The default value of FormItemContext (part_001), an object without id.
FormItemContext == [ id |-> JsUndefined ]

\* A render that threw.
Thrown(msg) ==
    [ threw |-> TRUE, error |-> msg, returned |-> FALSE, ids |-> {},
      callbackInvoked |-> FALSE ]

\* A render or hook call that completed; ids are the identifiers it put
\* into its result.
Returned(ids, invoked) ==
    [ threw |-> FALSE, error |-> "", returned |-> TRUE, ids |-> ids,
      callbackInvoked |-> invoked ]

\* FormField that renders the field whatever the form context holds.
FormField_NoGuard(inForm) == Returned({}, TRUE)

\* FormField of part_001: without a form in FormContext it throws before
\* rendering form.Field and so before calling its children callback.
FormField(inForm) ==
    IF ~inForm
    THEN Thrown("FormField must be used within a Form component")
    ELSE Returned({}, TRUE)

\* useFormField without the FormField check.
useFormFieldChecked_NoGuard(inField, id, errs, touched) ==
    [ threw |-> FALSE, value |-> useFormField(String(id), errs, touched) ]

\* useFormField of part_001 from its first line: the check of the field
\* context, then the ids built from whatever id the item context holds.
useFormFieldChecked(inField, id, errs, touched) ==
    IF ~inField
    THEN Thrown("useFormField should be used within <FormField>")
    ELSE [ threw |-> FALSE, value |-> useFormField(String(id), errs, touched) ]

\* useFormItemContext of form.tsx from its first line, inside a field
\* scope: the check of the id context, then the memoised display state.
useFormItemContextChecked(idContext, errs, touched, attempts) ==
    IF TypeOf(idContext) # "string"
    THEN Thrown("Form Item components should be used within <FormItem>")
    ELSE [ threw |-> FALSE,
           value |-> useFormItemContext(idContext.str, errs, touched,
                                        attempts) ]

\* The identifiers a rendered row part carries.
NodeIds(component, row) ==
    CASE component = "FormLabel"       -> {row.label.htmlFor}
      [] component = "FormControl"     ->
             {row.control.id} \cup {row.control.ariaDescribedby[i] :
                    i \in 1..Len(row.control.ariaDescribedby)}
      [] component = "FormDescription" -> {row.description.id}
      [] component = "FormMessage"     ->
             IF row.message.rendered THEN {row.message.id} ELSE {}

\* The four renderers of a row.
Renderers == {"FormLabel", "FormControl", "FormDescription", "FormMessage"}

\* One component of form.tsx rendered on its own.
RenderComponent(component, idContext, errs, touched, attempts, children) ==
    LET h == useFormItemContextChecked(idContext, errs, touched, attempts)
    IN  IF h.threw THEN h
        ELSE Returned(NodeIds(component, RenderItem(h.value, children)),
                      FALSE)

\* One component of part_001 rendered on its own.
LegacyRenderComponent(component, inForm, inField, id, errs, touched, children) ==
    IF component = "FormField" THEN FormField(inForm)
    ELSE LET h == useFormFieldChecked(inField, id, errs, touched)
         IN  IF h.threw THEN h
             ELSE IF component = "useFormField"
             THEN Returned({h.value.formItemId, h.value.formDescriptionId,
                            h.value.formMessageId}, FALSE)
             ELSE Returned(NodeIds(component,
                                   LegacyRenderItem(h.value, children)),
                           FALSE)

\* A FormItem for row r mounts: useId returns a fresh identifier.
Mount(r) ==
    /\ r \notin mounted
    /\ nextId < MaxIds
    /\ mounted' = mounted \cup {r}
    /\ itemId' = [itemId EXCEPT ![r] = FormItem(MakeId(nextId))]
    /\ nextId' = nextId + 1
    /\ RenderAll(itemId', mounted', errors, isTouched, submissionAttempts)
    /\ probe' = NoProbe
    /\ UNCHANGED <<storeVars, appVars>>

\* The FormItem of row r unmounts and its identifier is discarded.
Unmount(r) ==
    /\ r \in mounted
    /\ mounted' = mounted \ {r}
    /\ itemId' = [itemId EXCEPT ![r] = NoId]
    /\ RenderAll(itemId', mounted', errors, isTouched, submissionAttempts)
    /\ probe' = NoProbe
    /\ UNCHANGED <<storeVars, appVars, nextId>>

\* A component of one adapter renders for the field of row r with some of
\* its ancestors missing: inForm, inField and inItem tell whether a Form, a
\* field scope and the FormItem of row r enclose it.
Probe(variant, component, r, inForm, inField, inItem) ==
    /\ r \in mounted
    /\ inField => inForm
    /\ component = "FormField" => ~inField /\ ~inItem
    /\ variant = "form.tsx" => component \in Renderers /\ inField
    /\ probe' =
         [ probed    |-> TRUE,
           variant   |-> variant,
           component |-> component,
           row       |-> r,
           inForm    |-> inForm,
           inField   |-> inField,
           inItem    |-> inItem,
           outcome   |->
               IF variant = "form.tsx"
               THEN RenderComponent(
                        component,
                        IF inItem THEN JsString(itemId[r]) ELSE IdContext,
                        errors[r], isTouched[r], submissionAttempts,
                        Children(r))
               ELSE LegacyRenderComponent(
                        component, inForm, inField,
                        IF inItem THEN JsString(itemId[r])
                        ELSE FormItemContext.id,
                        errors[r], isTouched[r], Children(r)) ]
    /\ UNCHANGED <<storeVars, viewVars, appVars, mounted, itemId, nextId>>

ScopeNext ==
    \/ \E r \in Rows : Mount(r)
    \/ \E r \in Rows : Unmount(r)
    \/ \E r \in Rows, t \in BOOLEAN : NotifyTouched(r, t)
    \/ \E variant \in {"form.tsx", "part_001"},
          component \in Renderers \cup {"FormField", "useFormField"},
          r \in Rows, inForm \in BOOLEAN, inField \in BOOLEAN,
          inItem \in BOOLEAN :
          Probe(variant, component, r, inForm, inField, inItem)

ScopeSpec == Init /\ [][ScopeNext]_vars

(***************************************************************************)
(* The derived ids as a function of the row identifier.                    *)
(***************************************************************************)
\* Row identifiers the id context can hand to the hooks: identifiers of
\* useId, and strings that already look like derived ids or their suffixes.
RowIds ==
    { "", ":r0:", ":r1:", "undefined",
      ":r0:-form-item", ":r0:-form-item-description",
      ":r0:-form-item-message", ":r0:-form-item-form-item",
      "-form-item", "-description", "-message", ":r0:-description" }

\* The kinds of derived id.
IdKinds == {"control", "description", "message"}

\* The three ids an adapter derives from the row identifier id.
DerivedIds(variant, id) ==
    IF variant = "form.tsx"
    THEN LET item == useFormItemContext(id, <<>>, FALSE, 0)
         IN  [ control     |-> item.formControlId,
               description |-> item.formDescriptionId,
               message     |-> item.formMessageId ]
    ELSE LET f == useFormField(id, <<>>, FALSE)
         IN  [ control     |-> f.formItemId,
               description |-> f.formDescriptionId,
               message     |-> f.formMessageId ]

\* One adapter derives the ids of two rows whose identifiers are a and b.
DeriveIds(variant, a, b) ==
    /\ probe' = [ probed    |-> TRUE,
                  variant   |-> variant,
                  component |-> "ids",
                  a         |-> a,
                  b         |-> b,
                  left      |-> DerivedIds(variant, a),
                  right     |-> DerivedIds(variant, b) ]
    /\ UNCHANGED <<storeVars, viewVars, appVars, mounted, itemId, nextId>>

IdNext ==
    \E variant \in {"form.tsx", "part_001"}, a \in RowIds, b \in RowIds :
        DeriveIds(variant, a, b)

IdSpec == Init /\ [][IdNext]_vars

(***************************************************************************)
(* Shorthands of the specification document.                               *)
(***************************************************************************)
\* shouldShowError = touched OR submissionAttempts > 0
ShouldShowError(r) == isTouched[r] \/ submissionAttempts > 0

TypeOK ==
    /\ errors \in [Rows -> ErrorLists]
    /\ isTouched \in [Rows -> BOOLEAN]
    /\ submissionAttempts \in 0..MaxAttempts

\* The id tokens of an aria-describedby value.
Tokens(describedBy) == {describedBy[i] : i \in 1..Len(describedBy)}

\* The first error descriptor of row r is null or undefined.
NullishFirst(r) ==
    errors[r] # <<>> /\ errors[r][1].kind \in {"null", "undefined"}

(***************************************************************************)
(* C1 - C10                                                                *)
(***************************************************************************)

\* C1: the message derived by useFormItemContext is non-null if and only if
\* (isTouched or submissionAttempts > 0) and the errors list is non-empty.
\* The statement is taken with the exemption the same section of the
\* specification grants (a null or undefined descriptor produces no
\* message), so that what refutes it is a descriptor the specification
\* expects a message for.
C1_MessageIffShownAndErrors ==
    \A r \in Rows :
        (formItem[r].error # JsNull)
            <=> (ShouldShowError(r) /\ errors[r] # <<>> /\ ~NullishFirst(r))

\* normalize(d) of the specification: a string is itself, an object carrying
\* a string message is that message, every other non-null descriptor is
\* stringified directly.
SpecNormalize(d) ==
    IF d.kind = "string" THEN d.str
    ELSE IF d.kind = "object" /\ d.hasMessage /\ d.message.kind = "string"
    THEN d.message.str
    ELSE String(d)

\* C2: when an error is to be shown, the message of useFormItemContext is
\* normalize(errors[0]) for every non-null descriptor, objects without a
\* string message included.
C2_MessageIsNormalizedFirst ==
    \A r \in Rows :
        (ShouldShowError(r) /\ errors[r] # <<>> /\ ~NullishFirst(r))
            => formItem[r].error = JsString(SpecNormalize(errors[r][1]))

\* C3: in both adapters a null or undefined first descriptor never produces
\* a displayed message.
C3_NullishNeverDisplayed ==
    \A r \in Rows :
        NullishFirst(r) =>
            /\ formItem[r].error = JsNull
            /\ dom[r].message.rendered => dom[r].message.body = Children(r)
            /\ formField[r].error.isNull
            /\ legacyDom[r].message.rendered
                   => legacyDom[r].message.body = Children(r)

\* C4: the useFormField adapter displays an error (error non-null, message
\* rendered, data-error / aria-invalid true) only when the field is touched
\* or a submission has been attempted.
C4_LegacyErrorOnlyWhenShown ==
    \A r \in Rows :
        ( \/ ~formField[r].error.isNull
          \/ legacyDom[r].label.dataError
          \/ legacyDom[r].control.ariaInvalid
          \/ /\ legacyDom[r].message.rendered
             /\ legacyDom[r].message.body # Children(r) )
            => ShouldShowError(r)

\* The message node of row r shows the derived error message.
ErrorDisplayed(r) ==
    /\ formItem[r].error # JsNull
    /\ dom[r].message.rendered
    /\ dom[r].message.id = formItem[r].formMessageId
    /\ dom[r].message.body = formItem[r].error

LegacyErrorDisplayed(r) ==
    /\ ~formField[r].error.isNull
    /\ legacyDom[r].message.rendered
    /\ legacyDom[r].message.id = formField[r].formMessageId

\* C5: aria-describedby always contains the description id, and contains the
\* message id exactly when an error message is displayed in the row.
C5_DescribedByTracksDisplayedError ==
    \A r \in Rows :
        /\ formItem[r].formDescriptionId
               \in Tokens(dom[r].control.ariaDescribedby)
        /\ (formItem[r].formMessageId
               \in Tokens(dom[r].control.ariaDescribedby))
               <=> ErrorDisplayed(r)
        /\ formField[r].formDescriptionId
               \in Tokens(legacyDom[r].control.ariaDescribedby)
        /\ (formField[r].formMessageId
               \in Tokens(legacyDom[r].control.ariaDescribedby))
               <=> LegacyErrorDisplayed(r)

\* C6 as stated: the control's aria-invalid equals shouldShowError.
C6_AriaInvalidIsShouldShowError ==
    \A r \in Rows : dom[r].control.ariaInvalid = ShouldShowError(r)

\* C6 amended: the control's aria-invalid is true exactly when
\* shouldShowError holds and a message has been derived for the field.
C6_AriaInvalidIsHasError ==
    \A r \in Rows :
        dom[r].control.ariaInvalid
            = (ShouldShowError(r) /\ formItem[r].error # JsNull)

\* A shown field with an error is marked invalid while a shown field
\* without errors is not.
C6_Witness ==
    \E r, q \in Rows :
        /\ ShouldShowError(r) /\ errors[r] # <<>> /\ dom[r].control.ariaInvalid
        /\ ShouldShowError(q) /\ errors[q] = <<>> /\ ~dom[q].control.ariaInvalid

\* C7 as stated: the label's data-error equals shouldShowError.
C7_DataErrorIsShouldShowError ==
    \A r \in Rows : dom[r].label.dataError = ShouldShowError(r)

\* C7 amended: the label's data-error is true exactly when shouldShowError
\* holds and a message has been derived for the field.
C7_DataErrorIsHasError ==
    \A r \in Rows :
        dom[r].label.dataError
            = (ShouldShowError(r) /\ formItem[r].error # JsNull)

\* A touched field with an error has its label flagged while a touched
\* field without errors has not.
C7_Witness ==
    \E r, q \in Rows :
        /\ isTouched[r] /\ errors[r] # <<>> /\ dom[r].label.dataError
        /\ isTouched[q] /\ errors[q] = <<>> /\ ~dom[q].label.dataError

\* C8: in both adapters the label's htmlFor is the id of the control of the
\* same row and differs from the control id of every other row.
C8_LabelTargetsOwnControl ==
    \A r \in Rows :
        /\ dom[r].label.htmlFor = dom[r].control.id
        /\ legacyDom[r].label.htmlFor = legacyDom[r].control.id
        /\ \A q \in Rows \ {r} :
               /\ dom[r].label.htmlFor # dom[q].control.id
               /\ legacyDom[r].label.htmlFor # legacyDom[q].control.id

\* Two rows are rendered, one of them re-rendered with an error on display.
C8_Witness ==
    \E r \in Rows : \E q \in Rows \ {r} :
        /\ dom[r].control.ariaInvalid
        /\ legacyDom[r].control.ariaInvalid
        /\ dom[r].label.htmlFor = dom[r].control.id
        /\ dom[q].label.htmlFor = dom[q].control.id

\* C9: a FormMessage with no active error renders no DOM node when it has no
\* fallback children, and renders exactly the fallback children when it has
\* them (both adapters; the active error is the one the adapter derived).
C9_NoErrorRendersFallbackOrNothing ==
    \A r \in Rows :
        /\ formItem[r].error = JsNull =>
               IF Children(r) = JsUndefined
               THEN dom[r].message = NoNode
               ELSE /\ dom[r].message.rendered
                    /\ dom[r].message.body = Children(r)
        /\ formField[r].error.isNull =>
               IF Children(r) = JsUndefined
               THEN legacyDom[r].message = NoNode
               ELSE /\ legacyDom[r].message.rendered
                    /\ legacyDom[r].message.body = Children(r)

\* With errors in the store but nothing to show yet, one row renders its
\* fallback children and a row without children renders no message node.
C9_Witness ==
    \E r, q \in Rows :
        /\ Children(r) # JsUndefined /\ errors[r] # <<>>
        /\ formItem[r].error = JsNull
        /\ dom[r].message.rendered /\ dom[r].message.body = Children(r)
        /\ Children(q) = JsUndefined /\ formItem[q].error = JsNull
        /\ dom[q].message = NoNode
        /\ formField[q].error.isNull /\ legacyDom[q].message = NoNode

\* C10: whenever the displayed message is set, FormMessage renders a node
\* whose content is that message, whatever the children; fallback children
\* are rendered only when no message is set (both adapters, every message
\* value, the empty string included).
C10_MessageRenderedWhenSet ==
    \A r \in Rows :
        /\ formItem[r].error # JsNull =>
               /\ dom[r].message.rendered
               /\ dom[r].message.body = formItem[r].error
        /\ ~formField[r].error.isNull =>
               /\ legacyDom[r].message.rendered
               /\ legacyDom[r].message.body
                      = JsString(String(formField[r].error.message))

(***************************************************************************)
(* C11 - C20                                                               *)
(***************************************************************************)

\* A handler suppresses the event and then submits exactly once:
\* preventDefault and stopPropagation both precede the one handleSubmit.
SuppressesThenSubmitsOnce(effects) ==
    /\ Cardinality(Positions(effects, "handleSubmit")) = 1
    /\ \A i \in Positions(effects, "handleSubmit") :
           /\ \E j \in Positions(effects, "preventDefault") : j < i
           /\ \E j \in Positions(effects, "stopPropagation") : j < i

\* C11: on every native submit event delivered to the Form shell (either
\* adapter, used as the repository uses it) the default action is prevented
\* and propagation stopped, and only then is handleSubmit invoked, exactly
\* once.
C11_SubmitSuppressedThenHandled ==
    (submitEvent.handled /\ submitEvent.props \in OnSubmitProps) =>
        /\ SuppressesThenSubmitsOnce(submitEvent.effects)
        /\ SuppressesThenSubmitsOnce(submitEvent.legacyEffects)

\* C12: after any sequence of value changes, a submit (through the Form of
\* either adapter, used as the repository uses it) calls the application's
\* onSubmit exactly once with exactly the current values when every field
\* is valid at submit time, and not at all when some field is invalid.
C12_OnSubmitOnceIffValid ==
    (lastOp = "submit" /\ submitEvent.props \in OnSubmitProps) =>
        IF AllValid(value)
        THEN /\ submitEvent.onSubmitArgs = <<value>>
             /\ submitEvent.legacyOnSubmitArgs = <<value>>
        ELSE /\ submitEvent.onSubmitArgs = <<>>
             /\ submitEvent.legacyOnSubmitArgs = <<>>

\* C16: once a field's value has been changed and the field has lost focus,
\* the row (of either adapter) displays the validation message of the
\* current value exactly when that value fails the validator: an invalid
\* value shows its message, a corrected value shows none.
C16_MessageFollowsValidityAfterBlur ==
    \A r \in Rows :
        (isDirty[r] /\ isTouched[r]) =>
            LET issues == SchemaIssues(r, value[r])
            IN  IF issues # <<>>
                THEN /\ dom[r].message.rendered
                     /\ dom[r].message.body = JsString(issues[1].message.str)
                     /\ legacyDom[r].message.rendered
                     /\ legacyDom[r].message.body
                            = JsString(issues[1].message.str)
                ELSE /\ formItem[r].error = JsNull
                     /\ formField[r].error.isNull
                     /\ \A d \in {dom[r], legacyDom[r]} :
                            /\ ~d.control.ariaInvalid
                            /\ d.message.rendered
                                   => d.message.body = Children(r)

\* The field lost focus holding a too short name, and the message is shown.
C16_Witness ==
    /\ lastOp = "handleBlur"
    /\ isDirty["name"] /\ isTouched["name"] /\ value["name"] = "J"
    /\ submissionAttempts = 0
    /\ dom["name"].message.rendered
    /\ dom["name"].message.body
           = JsString("Name must be at least 2 characters")

\* C19: a render leaves the container's field state and submission state
\* unchanged, and the container state changes only in steps of
\* handleChange, handleBlur, handleSubmit and reset.
C19_RenderLeavesContainerUnchanged ==
    [][ /\ lastOp' = "render" =>
              UNCHANGED <<value, errors, isTouched, isDirty,
                          submissionAttempts>>
        /\ <<value, errors, isTouched, isDirty, submissionAttempts>>'
             # <<value, errors, isTouched, isDirty, submissionAttempts>>
             => lastOp' \in {"handleChange", "handleBlur", "submit", "reset"}
      ]_vars

\* The rows rendered again while the container held errors, a touched field
\* and a submission attempt.
C19_Witness ==
    /\ lastOp = "render"
    /\ \E r \in Rows : errors[r] # <<>> /\ isTouched[r] /\ isDirty[r]
    /\ submissionAttempts > 0

\* C18: after every store notification the display state of each mounted
\* row, in both adapters, and the attributes rendered from it equal the
\* pure function of the current errors, isTouched, submissionAttempts and
\* row id; no earlier value survives.
C18_DisplayStateIsFunctionOfStore ==
    \A r \in mounted :
        /\ formItem[r] = useFormItemContext(itemId[r], errors[r],
                                            isTouched[r], submissionAttempts)
        /\ dom[r] = RenderItem(formItem[r], Children(r))
        /\ formField[r] = useFormField(itemId[r], errors[r], isTouched[r])
        /\ legacyDom[r] = LegacyRenderItem(formField[r], Children(r))

\* A touched row whose error list took two notifications to build displays
\* the first error of the current list.
C18_Witness ==
    \E r \in mounted :
        /\ isTouched[r] /\ submissionAttempts = 0
        /\ Len(errors[r]) = 2
        /\ errors[r][1] # errors[r][2]
        /\ formItem[r].error = JsString("Required")
        /\ dom[r].message.rendered

\* C20: the FormDescription of a row carries the row's description id,
\* ending in "form-item-description", whatever the error state, and that id
\* is the description token of the aria-describedby of the row's control.
C20_DescriptionIdIsControlToken ==
    \A r \in mounted :
        /\ dom[r].description.id = itemId[r] \o "-form-item-description"
        /\ dom[r].description.id = dom[r].control.ariaDescribedby[1]
        /\ legacyDom[r].description.id
               = itemId[r] \o "-form-item-description"
        /\ legacyDom[r].description.id
               = legacyDom[r].control.ariaDescribedby[1]

\* A description rendered beside a displayed error: the control's
\* aria-describedby holds the description id and the message id.
C20_Witness ==
    \E r \in mounted :
        /\ formItem[r].hasError
        /\ Len(dom[r].control.ariaDescribedby) = 2
        /\ dom[r].description.id = dom[r].control.ariaDescribedby[1]
        /\ dom[r].description.id # dom[r].control.ariaDescribedby[2]

\* C13: useFormField called by a component with no enclosing FormField
\* throws during the render with the error "useFormField should be used
\* within <FormField>" and returns no value.
C13_UseFormFieldThrowsOutsideFormField ==
    ( /\ probe.probed
      /\ probe.variant = "part_001"
      /\ probe.component = "useFormField"
      /\ ~probe.inField )
        => /\ probe.outcome.threw
           /\ probe.outcome.error
                  = "useFormField should be used within <FormField>"
           /\ ~probe.outcome.returned
           /\ probe.outcome.ids = {}

\* useFormField was called inside a Form and a FormItem but outside every
\* FormField, and threw.
C13_Witness ==
    /\ probe.probed
    /\ probe.variant = "part_001"
    /\ probe.component = "useFormField"
    /\ probe.inForm /\ ~probe.inField /\ probe.inItem
    /\ probe.outcome.threw

\* C14: FormField rendered with no enclosing Form throws to its caller
\* instead of rendering a field, and does not invoke its render callback.
C14_FormFieldThrowsOutsideForm ==
    ( /\ probe.probed
      /\ probe.variant = "part_001"
      /\ probe.component = "FormField"
      /\ ~probe.inForm )
        => /\ probe.outcome.threw
           /\ ~probe.outcome.returned
           /\ ~probe.outcome.callbackInvoked

\* FormField was rendered outside every Form, and threw the error naming
\* the missing Form.
C14_Witness ==
    /\ probe.probed
    /\ probe.component = "FormField"
    /\ ~probe.inForm
    /\ probe.outcome.threw
    /\ probe.outcome.error = "FormField must be used within a Form component"

\* The identifiers built from a missing row identifier.
MissingRowIds ==
    { "undefined-form-item", "undefined-form-item-description",
      "undefined-form-item-message" }

\* C15: in both adapters, FormLabel, FormControl, FormDescription and
\* FormMessage rendered inside a field scope but outside every FormItem
\* throw at render, and none of them renders with identifiers derived from
\* a missing row identifier.
C15_RenderersThrowOutsideFormItem ==
    ( /\ probe.probed
      /\ probe.component \in Renderers
      /\ probe.inField
      /\ ~probe.inItem )
        => /\ probe.outcome.threw
           /\ probe.outcome.ids \cap MissingRowIds = {}

\* Concurrently mounted rows hold different identifiers.
IdsDistinct ==
    \A r1, r2 \in mounted : r1 # r2 => itemId[r1] # itemId[r2]

\* The descendants of a mounted row carry identifiers built from that
\* row's identifier, in both adapters.
IdsObserved ==
    \A r \in mounted :
        \A d \in {dom[r], legacyDom[r]} :
            /\ d.label.htmlFor = itemId[r] \o "-form-item"
            /\ d.control.id = itemId[r] \o "-form-item"
            /\ d.control.ariaDescribedby[1]
                   = itemId[r] \o "-form-item-description"
            /\ d.description.id = itemId[r] \o "-form-item-description"
            /\ d.message.rendered
                   => d.message.id = itemId[r] \o "-form-item-message"

\* C17: across mounts, re-renders and unmounts, a row's identifier is made
\* at mount and unchanged until unmount, no two concurrently mounted rows
\* share an identifier, and the descendants of a row carry that row's
\* identifier and no other.
C17_RowIdsUniqueStableObserved ==
    /\ [](IdsDistinct /\ IdsObserved)
    /\ [][ \A r \in Rows :
               /\ (r \in mounted /\ r \in mounted')
                      => itemId'[r] = itemId[r]
               /\ (r \notin mounted /\ r \in mounted')
                      => itemId'[r] \notin {itemId[s] : s \in Rows}
         ]_vars

\* Both rows were unmounted and mounted again: they hold the third and
\* fourth identifiers, and their descendants carry them.
C17_Witness ==
    /\ mounted = Rows
    /\ nextId = MaxIds
    /\ \A r \in Rows : itemId[r] \notin {UseId(s) : s \in Rows}
    /\ \E r \in Rows : isTouched[r]
    /\ IdsDistinct
    /\ dom["email"].message.id = itemId["email"] \o "-form-item-message"

(***************************************************************************)
(* C21 - C27                                                               *)
(***************************************************************************)

\* The handleSubmit calls of the submit event ev.
HandleSubmitCalls(ev) == Cardinality(Positions(ev.effects, "handleSubmit"))

C22_CallerOnSubmitReplacesBuiltIn ==
    submitEvent.handled =>
        /\ HandleSubmitCalls(submitEvent) <= 1
        /\ submitEvent.props # "none"
               => /\ submitEvent.effects = OnSubmit(submitEvent.props)
                  /\ \A e \in {"preventDefault", "stopPropagation",
                               "handleSubmit"} :
                         Positions(submitEvent.effects, e) # {}
                             => Positions(OnSubmit(submitEvent.props), e) # {}
        /\ (HandleSubmitCalls(submitEvent) = 0 /\ submitEvent.valid)
               => submitEvent.onSubmitArgs = <<>>

\* Valid values were submitted through a Form whose caller's handler does
\* nothing: no suppression, no handleSubmit, no attempt counted.
C22_Witness ==
    /\ lastOp = "submit"
    /\ submitEvent.props = "silent"
    /\ submitEvent.valid
    /\ submitEvent.effects = <<>>
    /\ submitEvent.onSubmitArgs = <<>>
    /\ submissionAttempts = 0

\* C23: hasError is true exactly when error is non-null, and hasError
\* implies that the field is touched or a submission was attempted and that
\* the errors list is non-empty.
C23_HasErrorIffMessage ==
    \A r \in mounted :
        /\ formItem[r].hasError <=> formItem[r].error # JsNull
        /\ formItem[r].hasError
               => /\ isTouched[r] \/ submissionAttempts > 0
                  /\ errors[r] # <<>>

\* A touched field whose first descriptor carries an empty message: the
\* message is set (the empty string) and hasError is true.
C23_Witness ==
    \E r \in mounted :
        /\ isTouched[r] /\ submissionAttempts = 0
        /\ errors[r] # <<>>
        /\ formItem[r].error = JsString("")
        /\ formItem[r].hasError

\* C25: in a row of form.tsx whose FormMessage has no fallback children,
\* the control's aria-describedby holds the message id exactly when
\* FormMessage renders a node carrying that id, for every descriptor, the
\* object with an empty message included.
C25_MessageIdReferencedIffRendered ==
    \A r \in mounted :
        Children(r) = JsUndefined =>
            ( (formItem[r].formMessageId
                   \in Tokens(dom[r].control.ariaDescribedby))
              <=> ( /\ dom[r].message.rendered
                    /\ dom[r].message.id = formItem[r].formMessageId ) )

\* A first descriptor that is a string or an object with a string message.
StringOrStringMessage(d) ==
    \/ TypeOf(d) = "string"
    \/ d.kind = "object" /\ d.hasMessage /\ d.message.kind = "string"

\* C26: when the field is touched or a submission was attempted and the
\* first descriptor is a string or an object with a string message, the two
\* adapters yield the same message, the same aria-describedby, the same
\* aria-invalid and the same data-error; with no errors both yield no
\* message.
C26_AdaptersAgreeOnShownErrors ==
    \A r \in mounted :
        /\ ( /\ ShouldShowError(r)
             /\ errors[r] # <<>>
             /\ StringOrStringMessage(errors[r][1]) )
               => /\ ~formField[r].error.isNull
                  /\ formItem[r].error = formField[r].error.message
                  /\ dom[r].message = legacyDom[r].message
                  /\ dom[r].control.ariaDescribedby
                         = legacyDom[r].control.ariaDescribedby
                  /\ dom[r].control.ariaInvalid
                         = legacyDom[r].control.ariaInvalid
                  /\ dom[r].label.dataError = legacyDom[r].label.dataError
        /\ errors[r] = <<>>
               => /\ formItem[r].error = JsNull
                  /\ formField[r].error.isNull
                  /\ dom[r].message = legacyDom[r].message

\* A touched field whose first descriptor is an object with the message
\* "Too short": both adapters render that text under the message id.
C26_Witness ==
    \E r \in mounted :
        /\ isTouched[r]
        /\ errors[r] # <<>>
        /\ errors[r][1] = JsObjectWithMessage(Prim("string", "Too short", 0))
        /\ dom[r].message.rendered
        /\ dom[r].message.body = JsString("Too short")
        /\ legacyDom[r].message.body = JsString("Too short")
        /\ Len(legacyDom[r].control.ariaDescribedby) = 2

\* C27: the display state depends on the first element of the errors list
\* alone: it equals the display state of the list cut after its first
\* element, in both adapters, and when the first descriptor yields no
\* message in form.tsx, none is displayed, whatever follows it.
C27_DisplayDependsOnFirstErrorOnly ==
    \A r \in mounted :
        errors[r] # <<>> =>
            LET head == <<errors[r][1]>>
            IN  /\ formItem[r] = useFormItemContext(itemId[r], head,
                                     isTouched[r], submissionAttempts)
                /\ dom[r] = RenderItem(
                                useFormItemContext(itemId[r], head,
                                    isTouched[r], submissionAttempts),
                                Children(r))
                /\ formField[r] = useFormField(itemId[r], head, isTouched[r])
                /\ legacyDom[r] = LegacyRenderItem(
                                      useFormField(itemId[r], head,
                                                   isTouched[r]),
                                      Children(r))
                /\ ( \/ errors[r][1].kind \in {"null", "undefined"}
                     \/ /\ errors[r][1].kind = "object"
                        /\ ~( /\ errors[r][1].hasMessage
                              /\ errors[r][1].message.kind = "string" ) )
                       => /\ formItem[r].error = JsNull
                          /\ dom[r].message.rendered
                                 => dom[r].message.body = Children(r)

\* A touched field whose errors are null followed by "Required": nothing
\* is displayed in place of the null.
C27_Witness ==
    \E r \in mounted :
        /\ isTouched[r]
        /\ errors[r] = <<JsNull, JsString("Required")>>
        /\ formItem[r].error = JsNull
        /\ ~dom[r].control.ariaInvalid

\* C24: the derived ids are collision-free.  For any two row identifiers a
\* and b, the control, description and message ids of a are pairwise
\* distinct, an id of one kind for a never equals an id of another kind for
\* b, and ids of the same kind are equal only if a = b.
C24_DerivedIdsCollisionFree ==
    (probe.probed /\ probe.component = "ids") =>
        \A k1 \in IdKinds, k2 \in IdKinds :
            /\ k1 # k2 => probe.left[k1] # probe.left[k2]
            /\ k1 # k2 => probe.left[k1] # probe.right[k2]
            /\ (k1 = k2 /\ probe.left[k1] = probe.right[k2])
                   => probe.a = probe.b

\* The ids of a row named like the control id of another row were derived:
\* its control id still differs from every id of that other row.
C24_Witness ==
    /\ probe.probed /\ probe.component = "ids"
    /\ probe.a = ":r0:-form-item"
    /\ probe.b = ":r0:"
    /\ probe.left.control = ":r0:-form-item-form-item"
    /\ probe.right.description = ":r0:-form-item-description"
    /\ probe.right.control = probe.a
====
